---- MODULE Spec2Model ----
(***************************************************************************)
(* CanaryAgent market collectors: the technical-indicator collector, the   *)
(* macro / OHLCV / short-interest collectors and the output records they   *)
(* return.  A collector call is one atomic action: it reads its arguments  *)
(* and the reply of the external source, and leaves its outcome (a         *)
(* returned value or a raised exception) in `ret`.                         *)
(***************************************************************************)
EXTENDS Integers, Sequences, FiniteSets, TLC

VARIABLES
    pc,       \* "idle": no call in progress; "returned": `ret` holds an outcome
    env,      \* the process environment: variable name -> value (or unset)
    usMacro,  \* the USMacroIndicatorCollector instance, once constructed
    krMacro,  \* the KRMacroIndicatorCollector instance, once constructed
    ecos,     \* an ECOSClient instance a caller constructed itself
    input,    \* the caller's own series, as the last compute call left it
    call,     \* the last call: its operation and its arguments
    ret,      \* the outcome of the last call
    trace     \* steps and collaborator calls the last call performed, in order

vars == <<pc, env, usMacro, krMacro, ecos, input, call, ret, trace>>

----------------------------------------------------------------------------
(* Bounds of the model.                                                    *)

MaxRows == 61      \* input series have 0..MaxRows rows
MaxSeries == 2     \* an upstream reply has at most MaxSeries observations

----------------------------------------------------------------------------
(* Python values.  A value carries its kind, so that None, a str, a dict,  *)
(* a list, a DataFrame and a model object are told apart.                  *)

PyNone == [kind |-> "None"]
Str(s) == [kind |-> "str", v |-> s]
Dict(f) == [kind |-> "dict", v |-> f]
List(s) == [kind |-> "list", v |-> s]

Return(v) == [kind |-> "return", value |-> v]
Raise(type, args) == [kind |-> "raise", exc |-> [type |-> type, args |-> args]]

Range(s) == {s[i] : i \in DOMAIN s}

\* Python's max() over a non-empty sequence of integers.
SeqMax(s) == CHOOSE m \in Range(s) : \A x \in Range(s) : x <= m

\* Python's two-argument max().
Max2(a, b) == IF a >= b THEN a ELSE b

----------------------------------------------------------------------------
(* pandas DataFrame: the ordered column labels, for each column the series *)
(* its values come from, and the row labels.  The cell of column j in row  *)
(* i is the pair <<values[j], index[i]>>.  A frame is an object: `id`      *)
(* tells the object a caller handed in ("df") from one made during a call. *)

DataFrame(columns, values, index) ==
    [kind |-> "DataFrame", columns |-> columns, values |-> values, index |-> index,
     id |-> "new"]

\* A frame of n rows as a source delivers it: each column holds its own
\* series, the rows are numbered 1..n.
Frame(columns, n) == DataFrame(columns, columns, [i \in 1..n |-> i])

\* len(df)
len(df) == Len(df.index)

Cell(df, j, i) == <<df.values[j], df.index[i]>>

\* The last column carrying label c (dict(zip(columns, row)): the last one wins).
LastPos(columns, c) ==
    CHOOSE j \in DOMAIN columns :
        /\ columns[j] = c
        /\ \A k \in DOMAIN columns : columns[k] = c => k <= j

\* df.to_dict(orient="records"): one mapping per row, in row order.
to_dict_records(df) ==
    List([i \in 1..len(df) |->
            [c \in Range(df.columns) |-> Cell(df, LastPos(df.columns, c), i)]])

\* df.copy(): a new frame with the same labels and values.
copy(df) == DataFrame(df.columns, df.values, df.index)

\* df[name] = series (what pandas-ta's append=True does): the column is
\* overwritten when the label exists and added at the end otherwise.  The
\* frame is changed in place.
SetColumn(df, name) ==
    IF name \in Range(df.columns)
    THEN [df EXCEPT !.values = [j \in DOMAIN df.columns |->
                                   IF df.columns[j] = name THEN name ELSE df.values[j]]]
    ELSE [df EXCEPT !.columns = Append(df.columns, name),
                    !.values = Append(df.values, name)]

RECURSIVE SetColumns(_, _)
SetColumns(df, names) ==
    IF names = <<>> THEN df
    ELSE SetColumns(SetColumn(df, Head(names)), Tail(names))

----------------------------------------------------------------------------
(* Output records: pydantic models.  Each class declares its fields; the   *)
(* constructor ignores keyword arguments that are no declared field,       *)
(* rejects a missing required field and a value of the wrong type, and     *)
(* fills the optional fields left out with None.                           *)

Fields(cls) ==
    CASE cls = "TechIndicatorOutput" -> {"ticker", "data", "start", "end", "interval"}
      [] cls = "IndicatorOutput" -> {"ticker", "data", "start", "end", "interval"}
      [] cls = "MacroIndicatorOutput" -> {"ticker", "data", "type", "start", "end"}
      [] cls = "OHLCVOutput" -> {"ticker", "data", "type", "start", "end", "interval"}
      [] cls = "ohlcv_collector.OHLCVOutput" ->
             {"ticker", "data", "type", "start", "end", "interval"}
      [] cls = "USShortOutput" -> {"ticker", "data"}
      [] cls = "KRShortOutput" -> {"ticker", "data", "type", "start", "end"}

\* The fields declared Field(...) with no default.
Required(cls) == Fields(cls) \cap {"ticker", "data", "type"}

\* The kinds of value the class's `data` annotation accepts.
DataKinds(cls) ==
    CASE cls = "TechIndicatorOutput" -> {"list"}
      [] cls = "IndicatorOutput" -> {"DataFrame"}
      [] cls = "MacroIndicatorOutput" -> {"dict", "list"}
      [] cls = "OHLCVOutput" -> {"dict", "list"}
      [] cls = "ohlcv_collector.OHLCVOutput" -> {"DataFrame"}
      [] cls = "USShortOutput" -> {"dict"}
      [] cls = "KRShortOutput" -> {"dict", "list"}

FieldOK(cls, f, v) ==
    CASE f = "data" -> v.kind \in DataKinds(cls)
      [] f \in {"start", "end", "interval"} -> v.kind \in {"None", "str"}
      [] OTHER -> TRUE

\* cls(**kwargs)
BaseModel_init(cls, kwargs) ==
    LET missing == Required(cls) \ DOMAIN kwargs
        bad == {f \in Fields(cls) \cap DOMAIN kwargs : ~FieldOK(cls, f, kwargs[f])}
    IN  IF missing # {} \/ bad # {}
        THEN Raise("ValidationError", <<cls, missing \cup bad>>)
        ELSE Return([kind |-> "object", cls |-> cls,
                     fields |-> [f \in Fields(cls) |->
                                   IF f \in DOMAIN kwargs THEN kwargs[f] ELSE PyNone]])

\* cls(value, ...): a pydantic model takes keyword arguments only.
BaseModel_init_positional(cls) ==
    Raise("TypeError",
          <<"BaseModel.__init__() takes 1 positional argument but 2 were given">>)

\* obj.model_dump(): a mapping of the declared fields; IndicatorOutput
\* serializes its frame as records.
model_dump(obj) ==
    Dict([f \in DOMAIN obj.fields |->
            IF f = "data" /\ obj.cls = "IndicatorOutput"
            THEN to_dict_records(obj.fields[f])
            ELSE obj.fields[f]])

\* obj.to_dict(); the OHLCV collector's own record class overrides it.
to_dict(obj) ==
    IF obj.cls = "ohlcv_collector.OHLCVOutput"
    THEN Dict([f \in DOMAIN obj.fields |->
                 IF f = "data" THEN to_dict_records(obj.fields[f]) ELSE obj.fields[f]])
    ELSE model_dump(obj)

\* `output.to_dict() if return_dict else output`, after a constructor call.
Deliver(constructed, return_dict) ==
    IF constructed.kind = "raise" THEN constructed
    ELSE Return(IF return_dict THEN to_dict(constructed.value) ELSE constructed.value)

----------------------------------------------------------------------------
(* TechIndicatorCollector.                                                 *)

\* Mutant: an upper-case label is first turned into the capitalized one.
RenameColumn_Stepwise(c) ==
    CASE c = "OPEN" -> "Open"
      [] c = "Open" -> "open"
      [] c = "High" -> "high"
      [] c = "Low" -> "low"
      [] c = "Close" -> "close"
      [] c = "Volume" -> "volume"
      [] OTHER -> c

\* pandas' rename of the five OHLCV labels; any other label is kept.
RenameColumn(c) ==
    CASE c = "Open" -> "open"
      [] c = "High" -> "high"
      [] c = "Low" -> "low"
      [] c = "Close" -> "close"
      [] c = "Volume" -> "volume"
      [] OTHER -> c

_normalize_columns(df) ==
    DataFrame([j \in DOMAIN df.columns |-> RenameColumn(df.columns[j])],
              df.values, df.index)

\* Mutant: both counts of the message are the required one.
InsufficientDataError_SameCounts(indicator_name, required, got) ==
    Raise("InsufficientDataError",
          <<indicator_name, " requires at least ", required,
            " rows, but got ", required, ".">>)

InsufficientDataError(indicator_name, required, got) ==
    Raise("InsufficientDataError",
          <<indicator_name, " requires at least ", required,
            " rows, but got ", got, ".">>)

\* Mutant: a series of exactly `required` rows is rejected too.
_validate_min_rows_Inclusive(df, required, indicator_name) ==
    IF len(df) <= required
    THEN InsufficientDataError(indicator_name, required, len(df))
    ELSE Return(PyNone)

_validate_min_rows(df, required, indicator_name) ==
    IF len(df) < required
    THEN InsufficientDataError(indicator_name, required, len(df))
    ELSE Return(PyNone)

\* What the indicator library raises when it fails; the collector has no
\* handler, so the exception leaves the call.
ta_error == Raise("Exception", <<"pandas_ta">>)

\* Mutant: the library is called before the rows are counted.
Compute_StepsFirst(cls, kwargs, out, steps, added, ta_ok, return_dict, before) ==
    IF ~ta_ok
    THEN [ret |-> ta_error, trace |-> <<Head(steps)>>, out |-> out]
    ELSE LET res == SetColumns(out, added)
             output == BaseModel_init(cls, [kwargs EXCEPT !.data = to_dict_records(res)])
         IN  [ret |-> Deliver(output, return_dict),
              trace |-> steps \o before \o <<<<"wrap">>>>,
              out |-> res]

\* The tail of a compute call after validation: the library calls `steps`
\* (each appends the labels `added`), then the record is built and delivered.
\* `out` is the working frame as the call leaves it.
Compute(cls, kwargs, out, steps, added, ta_ok, return_dict, before) ==
    IF ~ta_ok
    THEN [ret |-> ta_error, trace |-> Append(before, Head(steps)), out |-> out]
    ELSE LET res == SetColumns(out, added)
             output == BaseModel_init(cls, [kwargs EXCEPT !.data = to_dict_records(res)])
         IN  [ret |-> Deliver(output, return_dict),
              trace |-> before \o steps \o <<<<"wrap">>>>,
              out |-> res]

\* Mutant: the EMA windows count only when no SMA window is configured.
trend_min_required_SmaFirst(sma, ema) ==
    IF sma # <<>> THEN SeqMax(sma) ELSE SeqMax(ema)

trend_min_required(sma, ema) == SeqMax(sma \o ema)

trend(ticker, df, sma, ema, start, end, interval, return_dict, ta_ok) ==
    LET out == _normalize_columns(copy(df))
    IN  IF sma \o ema = <<>>
        THEN [ret |-> Raise("ValueError", <<"max() arg is an empty sequence">>),
              trace |-> <<<<"normalize">>>>]
        ELSE
        LET min_required == trend_min_required(sma, ema)
            valid == _validate_min_rows(out, min_required, "Trend indicators (SMA/EMA)")
            before == <<<<"normalize">>, <<"validate", min_required>>>>
        IN  IF valid.kind = "raise" THEN [ret |-> valid, trace |-> before]
            ELSE Compute("TechIndicatorOutput",
                         [ticker |-> ticker, data |-> PyNone, type |-> "trend",
                          start |-> start, end |-> end, interval |-> interval],
                         out,
                         [i \in 1..Len(sma) |-> <<"ta.sma", sma[i]>>]
                             \o [i \in 1..Len(ema) |-> <<"ta.ema", ema[i]>>],
                         [i \in 1..Len(sma) |-> "SMA_" \o ToString(sma[i])]
                             \o [i \in 1..Len(ema) |-> "EMA_" \o ToString(ema[i])],
                         ta_ok, return_dict, before)

\* Mutant: MACD sets the threshold to 26 whatever the RSI period.
momentum_min_required_Macd26(rsi, macd) ==
    IF macd THEN 26 ELSE rsi + 1

momentum_min_required(rsi, macd) ==
    IF macd THEN Max2(rsi + 1, 26) ELSE rsi + 1

momentum(ticker, df, rsi, macd, start, end, interval, return_dict, ta_ok) ==
    LET out == _normalize_columns(copy(df))
        min_required == momentum_min_required(rsi, macd)
        valid == _validate_min_rows(out, min_required, "Momentum indicators (RSI/MACD)")
        before == <<<<"normalize">>, <<"validate", min_required>>>>
    IN  IF valid.kind = "raise" THEN [ret |-> valid, trace |-> before]
        ELSE Compute("TechIndicatorOutput",
                     [ticker |-> ticker, data |-> PyNone, type |-> "momentum",
                      start |-> start, end |-> end, interval |-> interval],
                     out,
                     <<<<"ta.rsi", rsi>>>>
                         \o (IF macd THEN <<<<"ta.macd">>>> ELSE <<>>),
                     <<"RSI_" \o ToString(rsi)>>
                         \o (IF macd THEN <<"MACD_12_26_9", "MACDh_12_26_9", "MACDs_12_26_9">>
                             ELSE <<>>),
                     ta_ok, return_dict, before)

\* Mutant: the ATR period is left out of the threshold.
volatility_min_required_BollingerOnly(bb_window, atr) == bb_window

volatility_min_required(bb_window, atr) == Max2(bb_window, atr)

volatility(ticker, df, bb_window, bb_std, atr, start, end, interval, return_dict, ta_ok) ==
    LET out == _normalize_columns(copy(df))
        min_required == volatility_min_required(bb_window, atr)
        valid == _validate_min_rows(out, min_required,
                                    "Volatility indicators (BBANDS/ATR)")
        before == <<<<"normalize">>, <<"validate", min_required>>>>
    IN  IF valid.kind = "raise" THEN [ret |-> valid, trace |-> before]
        ELSE Compute("TechIndicatorOutput",
                     [ticker |-> ticker, data |-> PyNone, type |-> "volatility",
                      start |-> start, end |-> end, interval |-> interval],
                     out,
                     << <<"ta.bbands", bb_window, bb_std>>, <<"ta.atr", atr>> >>,
                     [i \in 1..5 |->
                         <<"BBL_", "BBM_", "BBU_", "BBB_", "BBP_">>[i]
                             \o ToString(bb_window) \o "_" \o bb_std]
                         \o <<"ATRr_" \o ToString(atr)>>,
                     ta_ok, return_dict, before)

volume_min_required(obv, vma) == vma

\* Mutant: the columns are renamed and appended on the caller's own frame.
volume_OnCallersFrame(ticker, df, obv, vma, start, end, interval, return_dict, ta_ok) ==
    LET out == [df EXCEPT !.columns = _normalize_columns(df).columns]
        min_required == volume_min_required(obv, vma)
        valid == _validate_min_rows(out, min_required, "Volume indicators (OBV/VMA)")
        before == <<<<"normalize">>, <<"validate", min_required>>>>
    IN  IF valid.kind = "raise" THEN [ret |-> valid, trace |-> before, out |-> out]
        ELSE Compute("TechIndicatorOutput",
                     [ticker |-> ticker, data |-> PyNone, type |-> "volume",
                      start |-> start, end |-> end, interval |-> interval],
                     out,
                     (IF obv THEN <<<<"ta.obv">>>> ELSE <<>>) \o <<<<"ta.sma", vma>>>>,
                     (IF obv THEN <<"OBV">> ELSE <<>>) \o <<"SMA_" \o ToString(vma)>>,
                     ta_ok, return_dict, before)

volume(ticker, df, obv, vma, start, end, interval, return_dict, ta_ok) ==
    LET out == _normalize_columns(copy(df))
        min_required == volume_min_required(obv, vma)
        valid == _validate_min_rows(out, min_required, "Volume indicators (OBV/VMA)")
        before == <<<<"normalize">>, <<"validate", min_required>>>>
    IN  IF valid.kind = "raise" THEN [ret |-> valid, trace |-> before]
        ELSE Compute("TechIndicatorOutput",
                     [ticker |-> ticker, data |-> PyNone, type |-> "volume",
                      start |-> start, end |-> end, interval |-> interval],
                     out,
                     (IF obv THEN <<<<"ta.obv">>>> ELSE <<>>) \o <<<<"ta.sma", vma>>>>,
                     (IF obv THEN <<"OBV">> ELSE <<>>) \o <<"SMA_" \o ToString(vma)>>,
                     ta_ok, return_dict, before)

----------------------------------------------------------------------------
(* Helpers shared by the collectors that query an external source.         *)

\* {"error": message}
error_data(message) == Dict([error |-> message])

\* df.iloc[i].to_dict(): row i as a mapping.
row_to_dict(df, i) ==
    Dict([c \in Range(df.columns) |-> Cell(df, LastPos(df.columns, c), i)])

\* df.reset_index(): the row labels become the first column.
reset_index(df, label) ==
    DataFrame(<<label>> \o df.columns, <<"index">> \o df.values, df.index)

\* df.tail(1)
tail1(df) ==
    DataFrame(df.columns, df.values,
              IF len(df) = 0 THEN <<>> ELSE <<df.index[len(df)]>>)

\* self.<name>: an attribute never assigned raises AttributeError.
getattr(self, name) ==
    IF name \in DOMAIN self.attrs THEN Return(self.attrs[name])
    ELSE Raise("AttributeError", <<self.cls, name>>)

Object(cls, attrs) == [kind |-> "object", cls |-> cls, attrs |-> attrs]

----------------------------------------------------------------------------
(* USMacroIndicatorCollector and KRMacroIndicatorCollector.                *)

\* Mutant: the key is compared as the caller spelled it.
lower_AsSpelled(key) == key

\* str.lower() on the keys callers pass.
lower(key) ==
    CASE key = "GDP" -> "gdp"
      [] key = "Gdp" -> "gdp"
      [] key = "VIX" -> "vix"
      [] key = "FOO" -> "foo"
      [] OTHER -> key

US_INDICATORS ==
    [k \in {"cpi", "core_cpi", "core_pce", "gdp", "industrial_production",
            "unemployment_rate", "nonfarm_payrolls", "federal_funds_rate",
            "10_year_bonds", "2_year_bonds", "vix", "nfci"} |->
        CASE k = "cpi" -> "CPIAUCSL"
          [] k = "core_cpi" -> "CPILFESL"
          [] k = "core_pce" -> "PCEPILFE"
          [] k = "gdp" -> "GDPC1"
          [] k = "industrial_production" -> "INDPRO"
          [] k = "unemployment_rate" -> "UNRATE"
          [] k = "nonfarm_payrolls" -> "PAYEMS"
          [] k = "federal_funds_rate" -> "FEDFUNDS"
          [] k = "10_year_bonds" -> "DGS10"
          [] k = "2_year_bonds" -> "DGS2"
          [] k = "vix" -> "VIXCLS"
          [] k = "nfci" -> "NFCI"]

KR_INDICATORS ==
    [k \in {"cpi", "core_cpi", "core_pce", "gdp", "industrial_production",
            "unemployment_rate", "nonfarm_payrolls", "federal_funds_rate",
            "10_year_bonds", "2_year_bonds"} |->
        CASE k = "cpi" -> <<"301Y001", "10101", "", "", "M">>
          [] k = "core_cpi" -> <<"301Y002", "10101", "", "", "M">>
          [] k = "core_pce" -> <<"302Y001", "10101", "", "", "M">>
          [] k = "gdp" -> <<"101Y001", "10001", "", "", "Q">>
          [] k = "industrial_production" -> <<"111Y001", "10001", "", "", "M">>
          [] k = "unemployment_rate" -> <<"331Y001", "10001", "", "", "M">>
          [] k = "nonfarm_payrolls" -> <<"351Y001", "10001", "", "", "M">>
          [] k = "federal_funds_rate" -> <<"015Y001", "10001", "", "", "M">>
          [] k = "10_year_bonds" -> <<"101Y010", "10001", "", "", "M">>
          [] k = "2_year_bonds" -> <<"101Y009", "10001", "", "", "M">>]

\* cls.keys()
keys(INDICATORS) == DOMAIN INDICATORS

can_search(INDICATORS, key) == lower(key) \in keys(INDICATORS)

\* key = key.lower(), the first statement of latest and between.
normalize_key(key) == lower(key)

not_valid_type(key) == Raise("ValueError", <<key, " is not valid type.">>)

\* Mutant: the constructor does not look at the environment.
_check_key_NoCheck(e, name) == Return(TRUE)

\* _check_key(): the named variable must be set.
_check_key(e, name) ==
    IF e[name] = PyNone
    THEN Raise("EnvironmentError", <<name, " is not set">>)
    ELSE Return(TRUE)

USMacro_init(e) ==
    LET checked == _check_key(e, "FRED_API_KEY")
    IN  IF checked.kind = "raise" THEN checked
        ELSE Return(Object("USMacroIndicatorCollector",
                           [fred |-> [api_key |-> e["FRED_API_KEY"]]]))

\* ECOSClient(api_key): `api_key or os.getenv(...)`, and an empty key is refused.
ECOSClient_init(e, api_key) ==
    LET given == IF api_key = PyNone \/ api_key = Str("") THEN e["ECOS_API_KEY"]
                 ELSE api_key
    IN  IF given = PyNone \/ given = Str("")
        THEN Raise("EnvironmentError", <<"ECOS_API_KEY", " is not set">>)
        ELSE Return(Object("ECOSClient", [api_key |-> given]))

KRMacro_init(e) ==
    LET checked == _check_key(e, "ECOS_API_KEY")
        client == ECOSClient_init(e, e["ECOS_API_KEY"])
    IN  IF checked.kind = "raise" THEN checked
        ELSE IF client.kind = "raise" THEN client
        ELSE Return(Object("KRMacroIndicatorCollector", [ecos |-> client.value]))

\* series.dropna().to_frame(name=key).reset_index().rename(columns={"index": "date"})
\* of a series given by its observations ("NaN" for a missing one).
series_frame(obs, key) ==
    DataFrame(<<"date", key>>, <<"index", "value">>,
              SelectSeq([i \in 1..Len(obs) |-> i], LAMBDA i : obs[i] # "NaN"))

USMacro_latest(self, key, return_dict, reply) ==
    LET k == normalize_key(key)
        called == << <<"fred.get_series", US_INDICATORS[k], PyNone, PyNone>> >>
        df == series_frame(reply.value, k)
    IN  IF ~can_search(US_INDICATORS, k)
        THEN [ret |-> not_valid_type(k), trace |-> <<>>]
        ELSE IF reply.kind = "raise" THEN [ret |-> reply, trace |-> called]
        ELSE IF len(df) = 0
        THEN [ret |-> Raise("IndexError", <<"single positional indexer is out-of-bounds">>),
              trace |-> called]
        ELSE [ret |-> Deliver(BaseModel_init("MacroIndicatorOutput",
                                  [ticker |-> k, type |-> "latest",
                                   data |-> row_to_dict(df, len(df))]),
                              return_dict),
              trace |-> called]

USMacro_between(self, key, start, end, return_dict, reply) ==
    LET k == normalize_key(key)
        called == << <<"fred.get_series", US_INDICATORS[k], start, end>> >>
        df == series_frame(reply.value, k)
        ticker == getattr(self, "ticker")
    IN  IF ~can_search(US_INDICATORS, k)
        THEN [ret |-> not_valid_type(k), trace |-> <<>>]
        ELSE IF reply.kind = "raise" THEN [ret |-> reply, trace |-> called]
        ELSE IF Len(reply.value) = 0
        THEN [ret |-> IF return_dict THEN Return(error_data("empty"))
                      ELSE IF ticker.kind = "raise" THEN ticker
                      ELSE BaseModel_init_positional("MacroIndicatorOutput"),
              trace |-> called]
        ELSE [ret |-> Deliver(BaseModel_init("MacroIndicatorOutput",
                                  [ticker |-> k, data |-> to_dict_records(df),
                                   type |-> "between", start |-> start, end |-> end]),
                              return_dict),
              trace |-> called]

KRMacro_latest(self, key, return_dict, reply) ==
    LET k == normalize_key(key)
        client == getattr(self, "client")
        called == << <<"get_series", KR_INDICATORS[k], PyNone, PyNone>> >>
    IN  IF ~can_search(KR_INDICATORS, k)
        THEN [ret |-> not_valid_type(k), trace |-> <<>>]
        ELSE IF client.kind = "raise" THEN [ret |-> client, trace |-> <<>>]
        ELSE IF reply.kind = "raise" THEN [ret |-> reply, trace |-> called]
        ELSE IF len(reply.value) = 0
        THEN [ret |-> IF return_dict THEN Return(error_data("empty"))
                      ELSE Deliver(BaseModel_init("MacroIndicatorOutput",
                                       [ticker |-> k, type |-> "latest",
                                        data |-> error_data("empty")]),
                                   FALSE),
              trace |-> called]
        ELSE [ret |-> Deliver(BaseModel_init("MacroIndicatorOutput",
                                  [ticker |-> k,
                                   data |-> row_to_dict(reply.value, len(reply.value))]),
                              return_dict),
              trace |-> called]

KRMacro_between(self, key, start, end, return_dict, reply) ==
    LET k == normalize_key(key)
        client == getattr(self, "client")
        called == << <<"get_series", KR_INDICATORS[k], start, end>> >>
    IN  IF ~can_search(KR_INDICATORS, k)
        THEN [ret |-> not_valid_type(k), trace |-> <<>>]
        ELSE IF client.kind = "raise" THEN [ret |-> client, trace |-> <<>>]
        ELSE IF reply.kind = "raise" THEN [ret |-> reply, trace |-> called]
        ELSE [ret |-> Deliver(BaseModel_init("MacroIndicatorOutput",
                                  [ticker |-> k, data |-> to_dict_records(reply.value),
                                   start |-> start, end |-> end]),
                              return_dict),
              trace |-> called]

----------------------------------------------------------------------------
(* ECOSClient.get_series.  An HTTP reply is either the exception           *)
(* requests.get raises, or a response with its status and body; a JSON     *)
(* body is given by the keys it has (PyNone for a key it lacks), its rows  *)
(* by the keys every row has and the TIME of each row.                     *)

\* start.replace("-", "")
replace_dashes(d) ==
    CASE d = "2024-01-01" -> "20240101"
      [] d = "2024-03-31" -> "20240331"
      [] OTHER -> d

\* `start.replace("-", "") if start else default`
date_or(d, default) ==
    IF d = PyNone \/ d = Str("") THEN default ELSE replace_dashes(d.v)

\* isinstance(e, requests.exceptions.RequestException)
IsRequestException(type) ==
    type \in {"requests.ConnectionError", "requests.HTTPError",
              "requests.JSONDecodeError"}

\* sorted(times), by insertion.
RECURSIVE sort_values(_)
sort_values(times) ==
    IF times = <<>> THEN <<>>
    ELSE LET rest == sort_values(Tail(times))
             x == Head(times)
         IN  SelectSeq(rest, LAMBDA t : t <= x) \o <<x>>
                 \o SelectSeq(rest, LAMBDA t : t > x)

\* The try block of get_series.  json_error is the class resp.json() raises
\* for a body that is no JSON: requests.JSONDecodeError (a RequestException)
\* from requests 2.27 on, json.JSONDecodeError (a ValueError) before.
get_series_try(http, cycle, json_error) ==
    LET json_data == http.body
        result == json_data.RESULT
        search == json_data.StatisticSearch
        data == IF search = PyNone \/ search.row = PyNone THEN <<>>
                ELSE search.row.TIME
        columns == search.row.keys
    IN  IF http.kind = "raise" THEN Raise(http.exc, <<"requests.get">>)
        ELSE IF http.status # 200
        THEN Raise("requests.HTTPError", <<"raise_for_status">>)
        ELSE IF json_data.kind # "json"
        THEN Raise(json_error, <<"Expecting value">>)
        ELSE IF result # PyNone /\ result.CODE # "INFO-000"
        THEN Raise("ValueError", <<"API Error: ", result.MESSAGE>>)
        ELSE IF data = <<>> THEN Return(DataFrame(<<>>, <<>>, <<>>))
        ELSE IF cycle \in {"M", "Q", "Y"} /\ "TIME" \notin columns
        THEN Raise("KeyError", <<"TIME">>)
        ELSE IF "DATA_VALUE" \notin columns THEN Raise("KeyError", <<"DATA_VALUE">>)
        ELSE IF cycle \notin {"M", "Q", "Y"} THEN Raise("KeyError", <<"date">>)
        ELSE Return(DataFrame(<<"date", "value">>, <<"date", "value">>,
                              sort_values(data)))

get_series(self, stat_code, item_code1, item_code2, item_code3, start, end, cycle, http, json_error) ==
    LET url == <<"requests.get", self.attrs.api_key, stat_code, cycle,
                 date_or(start, "190001"), date_or(end, "209912"),
                 item_code1, item_code2, item_code3>>
        tried == get_series_try(http, cycle, json_error)
    IN  [ret |-> IF tried.kind = "raise" /\ IsRequestException(tried.exc.type)
                 THEN Raise("ConnectionError", <<"API request failed: ", tried.exc.type>>)
                 ELSE IF tried.kind = "raise" /\ tried.exc.type = "KeyError"
                 THEN Raise("ValueError",
                            <<"response data parsing failed: ", tried.exc.args[1]>>)
                 ELSE tried,
         trace |-> <<url>>]

----------------------------------------------------------------------------
(* OHLCVCollector.                                                         *)

no_ohlcv_data(ticker) == Raise("ValueError", <<"No OHLCV data for ticker: ", ticker>>)

OHLCV_latest(ticker, return_dict, reply) ==
    LET called == << <<"yf.download", ticker, PyNone, PyNone, Str("1d")>> >>
        latest_df == reset_index(tail1(reply.value), "Date")
    IN  IF reply.kind = "raise" THEN [ret |-> reply, trace |-> called]
        ELSE IF len(reply.value) = 0
        THEN [ret |-> no_ohlcv_data(ticker), trace |-> called]
        ELSE [ret |-> Deliver(BaseModel_init("ohlcv_collector.OHLCVOutput",
                                  [ticker |-> ticker, type |-> "latest",
                                   data |-> latest_df]),
                              return_dict),
              trace |-> called]

OHLCV_between(ticker, start, end, interval, return_dict, reply) ==
    LET called == << <<"yf.download", ticker, start, end, interval>> >>
        df == reset_index(reply.value, "Date")
    IN  IF reply.kind = "raise" THEN [ret |-> reply, trace |-> called]
        ELSE IF len(reply.value) = 0
        THEN [ret |-> no_ohlcv_data(ticker), trace |-> called]
        ELSE [ret |-> Deliver(BaseModel_init("ohlcv_collector.OHLCVOutput",
                                  [ticker |-> ticker, type |-> "between", data |-> df,
                                   start |-> start, end |-> end,
                                   interval |-> interval]),
                              return_dict),
              trace |-> called]

----------------------------------------------------------------------------
(* USShortCollector and KRShortCollector.  The pykrx column labels are     *)
(* written in Latin letters: "balance", "ratio", "market_cap" for the      *)
(* balance frame and "short_volume" for the volume frame.                  *)

USShortFields ==
    { "sharesShort", "shortRatio", "shortPercentOfFloat",
      "dateShortInterest", "sharesPercentSharesOut",
      "sharesShortPriorMonth" }

USShort_latest(ticker, return_dict, reply) ==
    LET called == << <<"yf.Ticker.info", ticker>> >>
        info == reply.value.v
        data == Dict([k \in USShortFields |->
                        IF k \in DOMAIN info THEN info[k] ELSE "N/A"])
    IN  IF reply.kind = "raise" THEN [ret |-> reply, trace |-> called]
        ELSE [ret |-> Deliver(BaseModel_init("USShortOutput",
                                  [ticker |-> ticker, data |-> data]),
                              return_dict),
              trace |-> called]

\* str(e)
str(exc) == exc.args[1]

\* df[labels]: a label the frame lacks raises KeyError.
select(df, labels) ==
    LET missing == {c \in Range(labels) : c \notin Range(df.columns)}
    IN  IF missing # {} THEN Raise("KeyError", <<"not in index">>)
        ELSE Return(DataFrame(labels,
                              [j \in DOMAIN labels |->
                                  df.values[LastPos(df.columns, labels[j])]],
                              df.index))

\* The try block of KRShortCollector.latest.
KRShort_latest_try(ticker, return_dict, reply) ==
    LET t1 == << <<"stock.get_nearest_business_day_in_a_week">> >>
        t2 == Append(t1, <<"stock.get_shorting_balance_by_date", ticker>>)
        t3 == Append(t2, <<"stock.get_shorting_volume_by_ticker">>)
        today == reply.today.value
        bal_df == reply.bal.value
        vol_df == reply.vol.value
        short_volume == IF \E i \in DOMAIN vol_df.index : vol_df.index[i] = ticker
                        THEN <<"short_volume", ticker>>
                        ELSE PyNone
        row == select(bal_df, <<"balance", "ratio", "market_cap">>)
        data == Dict([k \in { "sharesShort", "shortRatio",
                              "shortPercentOfFloat", "sharesPercentSharesOut",
                              "date", "sharesShortPriorMonth",
                              "shortVolume", "marketCap" } |->
                        CASE k = "sharesShort" -> Cell(row.value, 1, 1)
                          [] k = "marketCap" -> Cell(row.value, 3, 1)
                          [] k = "date" -> today
                          [] k = "sharesShortPriorMonth" -> PyNone
                          [] k = "shortVolume" -> short_volume
                          [] OTHER -> Cell(row.value, 2, 1)])
    IN  IF reply.today.kind = "raise" THEN [ret |-> reply.today, trace |-> t1]
        ELSE IF reply.bal.kind = "raise" THEN [ret |-> reply.bal, trace |-> t2]
        ELSE IF len(bal_df) = 0
        THEN [ret |-> IF return_dict THEN Return(error_data("empty"))
                      ELSE BaseModel_init_positional("KRShortOutput"),
              trace |-> t2]
        ELSE IF reply.vol.kind = "raise" THEN [ret |-> reply.vol, trace |-> t3]
        ELSE IF row.kind = "raise" THEN [ret |-> row, trace |-> t3]
        ELSE [ret |-> Deliver(BaseModel_init("KRShortOutput",
                                  [ticker |-> ticker, type |-> "latest", data |-> data]),
                              return_dict),
              trace |-> t3]

\* latest: whatever the try block raises is caught by `except Exception`.
KRShort_latest(ticker, return_dict, reply) ==
    LET tried == KRShort_latest_try(ticker, return_dict, reply)
    IN  IF tried.ret.kind = "raise"
        THEN [ret |-> IF return_dict THEN Return(error_data(str(tried.ret.exc)))
                      ELSE BaseModel_init_positional("KRShortOutput"),
              trace |-> tried.trace]
        ELSE tried

KRShort_between(ticker, start, end, return_dict, reply) ==
    LET t1 == << <<"stock.get_shorting_balance_by_date", ticker, start, end>> >>
        t2 == Append(t1, <<"stock.get_shorting_volume_by_date", ticker, start, end>>)
        bal == select(reply.bal.value, <<"balance", "ratio", "market_cap">>)
        vol == select(reply.vol.value, <<"short_volume">>)
        df == DataFrame(<<"sharesShort", "shortRatio", "marketCap",
                           "shortVolume", "shortPercentOfFloat",
                           "sharesPercentSharesOut", "sharesShortPriorMonth",
                           "date">>,
                        bal.value.values \o vol.value.values
                            \o <<"ratio", "ratio", "None", "index">>,
                        bal.value.index)
        wrap(data) == Deliver(BaseModel_init("KRShortOutput",
                                  [ticker |-> ticker, type |-> "between",
                                   start |-> start, end |-> end, data |-> data]),
                              return_dict)
    IN  IF reply.bal.kind = "raise" THEN [ret |-> reply.bal, trace |-> t1]
        ELSE IF reply.vol.kind = "raise" THEN [ret |-> reply.vol, trace |-> t2]
        ELSE IF len(reply.bal.value) = 0
        THEN [ret |-> wrap(Dict(<<>>)), trace |-> t2]
        ELSE IF bal.kind = "raise" THEN [ret |-> bal, trace |-> t2]
        ELSE IF vol.kind = "raise" THEN [ret |-> vol, trace |-> t2]
        ELSE [ret |-> wrap(to_dict_records(df)), trace |-> t2]

----------------------------------------------------------------------------
(* Inputs of the calls.                                                    *)

Tickers == {"AAPL", "005930"}

\* The (start, end, interval) a caller passes: all left out, or all given.
TimeRanges ==
    { [start |-> PyNone, end |-> PyNone, interval |-> PyNone],
      [start |-> Str("2024-01-01"), end |-> Str("2024-03-31"), interval |-> Str("1d")] }

\* Who asks and for which range.
Requests ==
    { [ticker |-> "AAPL", range |-> CHOOSE r \in TimeRanges : r.start = PyNone],
      [ticker |-> "005930", range |-> CHOOSE r \in TimeRanges : r.start # PyNone] }

\* OHLCV frames as the price source delivers them, and already normalized.
OHLCVColumns ==
    { <<"Date", "Open", "High", "Low", "Close", "Volume">>,
      <<"date", "open", "high", "low", "close", "volume">> }

\* A frame that carries a 20-row moving average of an earlier computation.
EnrichedColumns == <<"date", "open", "high", "low", "close", "volume", "SMA_20">>

EnrichedRows == {20, 60}

\* The caller's own frame: its object, holding the caller's values.
InputFrame(columns, n) ==
    [DataFrame(columns, [j \in DOMAIN columns |-> "input." \o columns[j]],
               [i \in 1..n |-> i])
        EXCEPT !.id = "df"]

InputFrames ==
    {InputFrame(c, n) : c \in OHLCVColumns, n \in 0..MaxRows}
        \cup {InputFrame(EnrichedColumns, n) : n \in EnrichedRows}

\* Column labels of the frames handed to the normalizer alone.
NormalizeLabels == {"Open", "open", "OPEN", "Close", "Volume", "Date", "SMA_20"}

NormalizeColumns ==
    {<<>>} \cup {<<a>> : a \in NormalizeLabels}
           \cup {<<a, b>> : a \in NormalizeLabels, b \in NormalizeLabels}
           \cup {<<a, b, c>> : a \in NormalizeLabels, b \in NormalizeLabels,
                               c \in NormalizeLabels}

NormalizeFrames == {InputFrame(c, n) : c \in NormalizeColumns, n \in {0, MaxSeries}}

SmaWindows == { <<>>, <<5>>, <<20, 60>> }
EmaWindows == { <<>>, <<12, 26>>, <<30, 7>> }
RsiPeriods == {2, 14, 25, 30}
BollingerWindows == {5, 20}
AtrPeriods == {3, 14, 30}
VmaWindows == {1, 20, 40}

\* Keys callers pass to the macro collectors: recognized by both, by the US
\* collector only ("vix"), by neither, each in several letter cases.
MacroKeys == {"gdp", "GDP", "Gdp", "cpi", "vix", "VIX", "foo", "FOO"}

EnvNames == {"FRED_API_KEY", "ECOS_API_KEY"}
EnvValues == {PyNone, Str(""), Str("secret")}

\* Series of observations, some of them missing.
RECURSIVE Observations(_)
Observations(n) ==
    IF n = 0 THEN {<<>>}
    ELSE Observations(n - 1)
         \cup {Append(o, v) : o \in {p \in Observations(n - 1) : Len(p) = n - 1},
                              v \in {"3.1", "NaN"}}

\* Replies of the external sources: a value, or the exception of a failure.
FredReplies ==
    {Return(o) : o \in Observations(MaxSeries)}
        \cup {Raise("ValueError", <<"Bad Request.">>)}

EcosReplies ==
    {Return(Frame(<<"date", "value">>, n)) : n \in 0..MaxSeries}
        \cup {Raise("ConnectionError", <<"API request failed">>)}

DownloadReplies ==
    {Return(Frame(<<"Open", "High", "Low", "Close", "Volume">>, n)) :
        n \in 0..MaxSeries}
        \cup {Raise("Exception", <<"yfinance failed">>)}

InfoReplies ==
    { Return(Dict([k \in USShortFields |-> "1000"])),
      Return(Dict(<<>>)),
      Raise("Exception", <<"yfinance failed">>) }

pykrx_error == Raise("Exception", <<"pykrx failed">>)

BalanceReplies ==
    {Return(Frame(<<"balance", "ratio", "market_cap">>, n)) :
        n \in 0..MaxSeries}
        \cup {Return(Frame(<<"ratio">>, 1)), pykrx_error}

\* The volume frame by ticker: it lists the ticker or not.
VolumeByTickerReplies(ticker) ==
    { Return(DataFrame(<<"short_volume">>, <<"short_volume">>, <<ticker>>)),
      Return(DataFrame(<<"short_volume">>, <<"short_volume">>, <<>>)),
      pykrx_error }

\* The volume frame by date covers the dates of the balance frame, or comes
\* without its column.
VolumeByDateReplies(bal) ==
    { Return(DataFrame(<<"short_volume">>, <<"short_volume">>,
                       IF bal.kind = "return" THEN bal.value.index ELSE <<>>)),
      Return(DataFrame(<<>>, <<>>, <<>>)),
      pykrx_error }

TodayReplies == {Return("20240329"), pykrx_error}

\* The rows of a StatisticSearch answer: complete, or lacking a field.
EcosRows ==
    { [keys |-> {"TIME", "DATA_VALUE"}, TIME |-> <<>>],
      [keys |-> {"TIME", "DATA_VALUE"}, TIME |-> <<202401>>],
      [keys |-> {"TIME", "DATA_VALUE"}, TIME |-> <<202402, 202401>>],
      [keys |-> {"DATA_VALUE"}, TIME |-> <<0>>],
      [keys |-> {"TIME"}, TIME |-> <<202401>>] }

\* The bodies of an HTTP response: text that is no JSON, or a JSON object.
EcosBodies ==
    { [kind |-> "text"] }
        \cup { [kind |-> "json", RESULT |-> PyNone, StatisticSearch |-> PyNone],
               [kind |-> "json", RESULT |-> PyNone, StatisticSearch |-> [row |-> PyNone]],
               [kind |-> "json",
                RESULT |-> [CODE |-> "INFO-200", MESSAGE |-> "no data"],
                StatisticSearch |-> PyNone] }
        \cup { [kind |-> "json", RESULT |-> PyNone, StatisticSearch |-> [row |-> r]] :
                  r \in EcosRows }

HttpReplies ==
    { [kind |-> "raise", exc |-> "requests.ConnectionError"] }
        \cup { [kind |-> "response", status |-> 500, body |-> [kind |-> "text"]] }
        \cup { [kind |-> "response", status |-> 200, body |-> b] : b \in EcosBodies }

\* The class resp.json() raises for a body that is no JSON.
JsonErrors == {"requests.JSONDecodeError", "json.JSONDecodeError"}

\* The statistics a caller of the client asks for.
EcosSeries == {"cpi", "gdp"}

----------------------------------------------------------------------------
(* The state machine.                                                      *)

NoCall == [op |-> "none"]
NoRet == [kind |-> "none"]

Init ==
    /\ pc = "idle"
    /\ env = [FRED_API_KEY |-> PyNone, ECOS_API_KEY |-> PyNone]
    /\ usMacro = PyNone
    /\ krMacro = PyNone
    /\ ecos = PyNone
    /\ input = PyNone
    /\ call = NoCall
    /\ ret = NoRet
    /\ trace = <<>>

\* The caller's frame after a call that worked on the frame r.out: changed
\* with it when the two are one object, as it was otherwise.
Caller(df, r) ==
    IF "out" \in DOMAIN r /\ r.out.id = df.id THEN r.out ELSE df

\* A call ran to its end: its outcome and the steps it took.
Ran(c, r) ==
    /\ pc' = "returned"
    /\ call' = c
    /\ ret' = r.ret
    /\ trace' = r.trace

Trend ==
    /\ pc = "idle"
    /\ \E df \in InputFrames, q \in Requests, sma \in SmaWindows, ema \in EmaWindows,
          return_dict \in BOOLEAN, ta_ok \in BOOLEAN :
          \E r \in {trend(q.ticker, df, sma, ema, q.range.start, q.range.end,
                       q.range.interval, return_dict, ta_ok)} :
              /\ Ran([op |-> "trend", ticker |-> q.ticker, df |-> df, sma |-> sma, ema |-> ema,
                     range |-> q.range, return_dict |-> return_dict, ta_ok |-> ta_ok], r)
              /\ input' = Caller(df, r)
    /\ UNCHANGED <<env, usMacro, krMacro, ecos>>

Momentum ==
    /\ pc = "idle"
    /\ \E df \in InputFrames, q \in Requests, rsi \in RsiPeriods, macd \in BOOLEAN,
          return_dict \in BOOLEAN, ta_ok \in BOOLEAN :
          \E r \in {momentum(q.ticker, df, rsi, macd, q.range.start, q.range.end,
                          q.range.interval, return_dict, ta_ok)} :
              /\ Ran([op |-> "momentum", ticker |-> q.ticker, df |-> df, rsi |-> rsi,
                     macd |-> macd, range |-> q.range, return_dict |-> return_dict,
                     ta_ok |-> ta_ok], r)
              /\ input' = Caller(df, r)
    /\ UNCHANGED <<env, usMacro, krMacro, ecos>>

Volatility ==
    /\ pc = "idle"
    /\ \E df \in InputFrames, q \in Requests, bb_window \in BollingerWindows,
          atr \in AtrPeriods, return_dict \in BOOLEAN, ta_ok \in BOOLEAN :
          \E r \in {volatility(q.ticker, df, bb_window, "2.0", atr, q.range.start, q.range.end,
                            q.range.interval, return_dict, ta_ok)} :
              /\ Ran([op |-> "volatility", ticker |-> q.ticker, df |-> df,
                     bb_window |-> bb_window, bb_std |-> "2.0", atr |-> atr, range |-> q.range,
                     return_dict |-> return_dict, ta_ok |-> ta_ok], r)
              /\ input' = Caller(df, r)
    /\ UNCHANGED <<env, usMacro, krMacro, ecos>>

Volume ==
    /\ pc = "idle"
    /\ \E df \in InputFrames, q \in Requests, obv \in BOOLEAN, vma \in VmaWindows,
          return_dict \in BOOLEAN, ta_ok \in BOOLEAN :
          \E r \in {volume(q.ticker, df, obv, vma, q.range.start, q.range.end,
                        q.range.interval, return_dict, ta_ok)} :
              /\ Ran([op |-> "volume", ticker |-> q.ticker, df |-> df, obv |-> obv, vma |-> vma,
                     range |-> q.range, return_dict |-> return_dict, ta_ok |-> ta_ok], r)
              /\ input' = Caller(df, r)
    /\ UNCHANGED <<env, usMacro, krMacro, ecos>>

\* TechIndicatorCollector._normalize_columns(df)
Normalize ==
    /\ pc = "idle"
    /\ \E df \in NormalizeFrames :
          \E r \in {[ret |-> Return(_normalize_columns(df)), trace |-> <<>>]} :
              /\ Ran([op |-> "_normalize_columns", df |-> df], r)
              /\ input' = Caller(df, r)
    /\ UNCHANGED <<env, usMacro, krMacro, ecos>>

\* The environment of the process changes between calls.
Setenv ==
    /\ pc = "idle"
    /\ \E name \in EnvNames, v \in EnvValues :
          /\ env[name] # v
          /\ env' = [env EXCEPT ![name] = v]
    /\ UNCHANGED <<pc, usMacro, krMacro, ecos, input, call, ret, trace>>

\* collector = USMacroIndicatorCollector()
NewUSMacro ==
    /\ pc = "idle"
    /\ LET made == USMacro_init(env)
       IN  /\ Ran([op |-> "USMacroIndicatorCollector"], [ret |-> made, trace |-> <<>>])
           /\ usMacro' = IF made.kind = "return" THEN made.value ELSE usMacro
    /\ UNCHANGED <<env, krMacro, ecos, input>>

\* collector = KRMacroIndicatorCollector()
NewKRMacro ==
    /\ pc = "idle"
    /\ LET made == KRMacro_init(env)
       IN  /\ Ran([op |-> "KRMacroIndicatorCollector"], [ret |-> made, trace |-> <<>>])
           /\ krMacro' = IF made.kind = "return" THEN made.value ELSE krMacro
    /\ UNCHANGED <<env, usMacro, ecos, input>>

\* client = ECOSClient(api_key)
NewECOSClient ==
    /\ pc = "idle"
    /\ \E api_key \in EnvValues :
          LET made == ECOSClient_init(env, api_key)
          IN  /\ Ran([op |-> "ECOSClient", api_key |-> api_key],
                     [ret |-> made, trace |-> <<>>])
              /\ ecos' = IF made.kind = "return" THEN made.value ELSE ecos
    /\ UNCHANGED <<env, usMacro, krMacro, input>>

\* client.get_series(stat_code, item_code1, ..., start, end, cycle)
EcosGetSeries ==
    /\ pc = "idle"
    /\ ecos # PyNone
    /\ \E key \in EcosSeries, range \in TimeRanges, http \in HttpReplies,
          json_error \in JsonErrors :
          LET a == KR_INDICATORS[key]
          IN  Ran([op |-> "ECOSClient.get_series", key |-> key, range |-> range,
                   http |-> http, json_error |-> json_error],
                  get_series(ecos, a[1], a[2], a[3], a[4], range.start, range.end,
                             a[5], http, json_error))
    /\ UNCHANGED <<env, usMacro, krMacro, ecos, input>>

USMacroLatest ==
    /\ pc = "idle"
    /\ usMacro # PyNone
    /\ \E key \in MacroKeys, return_dict \in BOOLEAN, reply \in FredReplies :
          Ran([op |-> "USMacro.latest", key |-> key, return_dict |-> return_dict,
               reply |-> reply],
              USMacro_latest(usMacro, key, return_dict, reply))
    /\ UNCHANGED <<env, usMacro, krMacro, ecos, input>>

USMacroBetween ==
    /\ pc = "idle"
    /\ usMacro # PyNone
    /\ \E key \in MacroKeys, range \in TimeRanges, return_dict \in BOOLEAN,
          reply \in FredReplies :
          Ran([op |-> "USMacro.between", key |-> key, range |-> range,
               return_dict |-> return_dict, reply |-> reply],
              USMacro_between(usMacro, key, range.start, range.end, return_dict, reply))
    /\ UNCHANGED <<env, usMacro, krMacro, ecos, input>>

KRMacroLatest ==
    /\ pc = "idle"
    /\ krMacro # PyNone
    /\ \E key \in MacroKeys, return_dict \in BOOLEAN, reply \in EcosReplies :
          Ran([op |-> "KRMacro.latest", key |-> key, return_dict |-> return_dict,
               reply |-> reply],
              KRMacro_latest(krMacro, key, return_dict, reply))
    /\ UNCHANGED <<env, usMacro, krMacro, ecos, input>>

KRMacroBetween ==
    /\ pc = "idle"
    /\ krMacro # PyNone
    /\ \E key \in MacroKeys, range \in TimeRanges, return_dict \in BOOLEAN,
          reply \in EcosReplies :
          Ran([op |-> "KRMacro.between", key |-> key, range |-> range,
               return_dict |-> return_dict, reply |-> reply],
              KRMacro_between(krMacro, key, range.start, range.end, return_dict, reply))
    /\ UNCHANGED <<env, usMacro, krMacro, ecos, input>>

\* OHLCVCollector(ticker).latest(return_dict)
OHLCVLatest ==
    /\ pc = "idle"
    /\ \E ticker \in Tickers, return_dict \in BOOLEAN, reply \in DownloadReplies :
          Ran([op |-> "OHLCV.latest", ticker |-> ticker, return_dict |-> return_dict,
               reply |-> reply],
              OHLCV_latest(ticker, return_dict, reply))
    /\ UNCHANGED <<env, usMacro, krMacro, ecos, input>>

\* OHLCVCollector(ticker).between(start, end, interval, return_dict)
OHLCVBetween ==
    /\ pc = "idle"
    /\ \E ticker \in Tickers, range \in TimeRanges, return_dict \in BOOLEAN,
          reply \in DownloadReplies :
          Ran([op |-> "OHLCV.between", ticker |-> ticker, range |-> range,
               return_dict |-> return_dict, reply |-> reply],
              OHLCV_between(ticker, range.start, range.end, range.interval,
                            return_dict, reply))
    /\ UNCHANGED <<env, usMacro, krMacro, ecos, input>>

\* USShortCollector(ticker).latest(return_dict)
USShortLatest ==
    /\ pc = "idle"
    /\ \E ticker \in Tickers, return_dict \in BOOLEAN, reply \in InfoReplies :
          Ran([op |-> "USShort.latest", ticker |-> ticker, return_dict |-> return_dict,
               reply |-> reply],
              USShort_latest(ticker, return_dict, reply))
    /\ UNCHANGED <<env, usMacro, krMacro, ecos, input>>

\* KRShortCollector(ticker).latest(return_dict)
KRShortLatest ==
    /\ pc = "idle"
    /\ \E ticker \in Tickers, return_dict \in BOOLEAN, today \in TodayReplies,
          bal \in BalanceReplies :
          \E vol \in VolumeByTickerReplies(ticker) :
              Ran([op |-> "KRShort.latest", ticker |-> ticker,
                   return_dict |-> return_dict,
                   reply |-> [today |-> today, bal |-> bal, vol |-> vol]],
                  KRShort_latest(ticker, return_dict,
                                 [today |-> today, bal |-> bal, vol |-> vol]))
    /\ UNCHANGED <<env, usMacro, krMacro, ecos, input>>

\* KRShortCollector(ticker).between(start, end, return_dict)
KRShortBetween ==
    /\ pc = "idle"
    /\ \E ticker \in Tickers, range \in TimeRanges, return_dict \in BOOLEAN,
          bal \in BalanceReplies :
          \E vol \in VolumeByDateReplies(bal) :
              Ran([op |-> "KRShort.between", ticker |-> ticker, range |-> range,
                   return_dict |-> return_dict, reply |-> [bal |-> bal, vol |-> vol]],
                  KRShort_between(ticker, range.start, range.end, return_dict,
                                  [bal |-> bal, vol |-> vol]))
    /\ UNCHANGED <<env, usMacro, krMacro, ecos, input>>

\* The caller takes the outcome; the next call starts afresh.
Finish ==
    /\ pc = "returned"
    /\ pc' = "idle"
    /\ call' = NoCall
    /\ ret' = NoRet
    /\ trace' = <<>>
    /\ input' = PyNone
    /\ UNCHANGED <<env, usMacro, krMacro, ecos>>

Next ==
    \/ Trend
    \/ Momentum
    \/ Volatility
    \/ Volume
    \/ Normalize
    \/ Finish

Spec == Init /\ [][Next]_vars

\* The collectors that query an external source.  They share no state with
\* the indicator computations above, which are static methods.
CollectorNext ==
    \/ Setenv
    \/ NewUSMacro
    \/ NewKRMacro
    \/ NewECOSClient
    \/ EcosGetSeries
    \/ USMacroLatest
    \/ USMacroBetween
    \/ KRMacroLatest
    \/ KRMacroBetween
    \/ OHLCVLatest
    \/ OHLCVBetween
    \/ USShortLatest
    \/ KRShortLatest
    \/ KRShortBetween
    \/ Finish

CollectorSpec == Init /\ [][CollectorNext]_vars

----------------------------------------------------------------------------
(* Vocabulary of the properties.                                           *)

TechOps == {"trend", "momentum", "volatility", "volume"}

Returned == pc = "returned"

TechCall == Returned /\ call.op \in TechOps

\* The window lengths a trend call configures.
TrendWindows(c) == Range(c.sma) \cup Range(c.ema)

\* The required-row table: the threshold of a compute call, where it has one
\* (a trend call that configures no window has none).
HasThreshold(c) == c.op = "trend" => TrendWindows(c) # {}

RequiredRows(c) ==
    CASE c.op = "trend" ->
             CHOOSE m \in TrendWindows(c) : \A w \in TrendWindows(c) : w <= m
      [] c.op = "momentum" ->
             IF c.macd /\ c.rsi + 1 < 26 THEN 26 ELSE c.rsi + 1
      [] c.op = "volatility" ->
             IF c.bb_window >= c.atr THEN c.bb_window ELSE c.atr
      [] c.op = "volume" -> c.vma

FamilyLabel(op) ==
    CASE op = "trend" -> "Trend indicators (SMA/EMA)"
      [] op = "momentum" -> "Momentum indicators (RSI/MACD)"
      [] op = "volatility" -> "Volatility indicators (BBANDS/ATR)"
      [] op = "volume" -> "Volume indicators (OBV/VMA)"

IsInsufficientData(r) == r.kind = "raise" /\ r.exc.type = "InsufficientDataError"

\* The fields of a returned record, or the entries of a returned mapping.
FieldsOf(v) == IF v.kind = "object" THEN v.fields ELSE v.v

\* The call returned an output record, or its mapping form when asked for.
ReturnsRecord(r, c) ==
    /\ r.kind = "return"
    /\ r.value.kind = (IF c.return_dict THEN "dict" ELSE "object")
    /\ {"ticker", "data"} \subseteq DOMAIN FieldsOf(r.value)

DefaultTrend(c) == c.op = "trend" /\ c.sma = <<20, 60>> /\ c.ema = <<12, 26>>

----------------------------------------------------------------------------
(* C1: in each of the four families a compute call fails with              *)
(* InsufficientData when the series has fewer rows than the family's       *)
(* required threshold, and returns an output record when it has exactly    *)
(* that many rows and the indicator library does not fail.                 *)
C1_FailsBelowThresholdSucceedsAtIt ==
    (TechCall /\ HasThreshold(call)) =>
        /\ len(call.df) < RequiredRows(call) => IsInsufficientData(ret)
        /\ (len(call.df) = RequiredRows(call) /\ call.ta_ok) => ReturnsRecord(ret, call)

C1_Witness ==
    /\ TechCall /\ call.op = "volatility" /\ call.ta_ok
    /\ len(call.df) = RequiredRows(call)
    /\ ReturnsRecord(ret, call)

(* C2: a trend call is rejected with InsufficientData exactly when the     *)
(* series is shorter than some configured SMA or EMA window, i.e. shorter  *)
(* than the largest of all of them; with sma=[20,60], ema=[12,26] 60 rows  *)
(* are accepted and 59 rows are rejected.                                  *)
C2_TrendThresholdIsLargestWindow ==
    (TechCall /\ call.op = "trend" /\ HasThreshold(call)) =>
        /\ IsInsufficientData(ret) <=> (\E w \in TrendWindows(call) : len(call.df) < w)
        /\ (DefaultTrend(call) /\ len(call.df) = 60 /\ call.ta_ok) => ReturnsRecord(ret, call)
        /\ (DefaultTrend(call) /\ len(call.df) = 59) => IsInsufficientData(ret)

C2_Witness ==
    /\ TechCall /\ DefaultTrend(call) /\ len(call.df) = 60
    /\ ReturnsRecord(ret, call)

(* C3: a momentum call is rejected with InsufficientData exactly when the  *)
(* series has fewer than rsi_period + 1 rows or, MACD being requested,     *)
(* fewer than 26 rows; with rsi=14 and MACD 25 rows are rejected and 26    *)
(* rows accepted.                                                          *)
C3_MomentumThreshold ==
    (TechCall /\ call.op = "momentum") =>
        /\ IsInsufficientData(ret) <=>
               (len(call.df) < call.rsi + 1 \/ (call.macd /\ len(call.df) < 26))
        /\ (call.rsi = 14 /\ call.macd /\ len(call.df) = 25) => IsInsufficientData(ret)
        /\ (call.rsi = 14 /\ call.macd /\ len(call.df) = 26 /\ call.ta_ok)
               => ReturnsRecord(ret, call)

C3_Witness ==
    /\ TechCall /\ call.op = "momentum" /\ call.rsi = 14 /\ call.macd
    /\ len(call.df) = 26
    /\ ReturnsRecord(ret, call)

(* C4: a volatility call is rejected with InsufficientData exactly when    *)
(* the series is shorter than the Bollinger window or the ATR period; a    *)
(* volume call exactly when it is shorter than the volume moving-average   *)
(* window, whether or not OBV is requested.                                *)
C4_VolatilityAndVolumeThreshold ==
    /\ (TechCall /\ call.op = "volatility") =>
           (IsInsufficientData(ret) <=>
               (len(call.df) < call.bb_window \/ len(call.df) < call.atr))
    /\ (TechCall /\ call.op = "volume") =>
           (IsInsufficientData(ret) <=> len(call.df) < call.vma)

C4_Witness ==
    /\ TechCall /\ call.op = "volatility"
    /\ call.bb_window < call.atr /\ call.bb_window <= len(call.df)
    /\ len(call.df) < call.atr
    /\ IsInsufficientData(ret)

(* C5: the InsufficientData error of a failed validation carries the label *)
(* of the calling family, the required row count and the row count of the  *)
(* series; the default trend call on 59 rows reports "Trend indicators     *)
(* (SMA/EMA)", 60 and 59.                                                  *)
C5_ErrorCarriesLabelAndCounts ==
    (TechCall /\ IsInsufficientData(ret)) =>
        /\ ret.exc.args[1] = FamilyLabel(call.op)
        /\ ret.exc.args[3] = RequiredRows(call)
        /\ ret.exc.args[5] = len(call.df)
        /\ (DefaultTrend(call) /\ len(call.df) = 59) =>
               /\ ret.exc.args[1] = "Trend indicators (SMA/EMA)"
               /\ ret.exc.args[3] = 60
               /\ ret.exc.args[5] = 59

C5_Witness ==
    /\ TechCall /\ DefaultTrend(call) /\ len(call.df) = 59
    /\ IsInsufficientData(ret)

(* C6: the record a successful compute call returns, and its mapping form, *)
(* has `type` equal to the family name and `data` equal to the full        *)
(* resulting row sequence, one record per input row.                       *)
C6_TypeIsFamilyAndDataIsAllRows ==
    (TechCall /\ ret.kind = "return") =>
        LET m == FieldsOf(ret.value)
        IN  /\ "type" \in DOMAIN m
            /\ m["type"] = call.op
            /\ m["data"].kind = "list"
            /\ Len(m["data"].v) = len(call.df)

----------------------------------------------------------------------------
(* Vocabulary of the properties of the collectors that query a source.     *)

BetweenOps == {"OHLCV.between", "USMacro.between", "KRMacro.between", "KRShort.between"}

MacroOps == {"USMacro.latest", "USMacro.between", "KRMacro.latest", "KRMacro.between"}

CollectorOps ==
    BetweenOps \cup MacroOps \cup {"OHLCV.latest", "USShort.latest", "KRShort.latest"}

OutputClasses ==
    {"TechIndicatorOutput", "IndicatorOutput", "MacroIndicatorOutput", "OHLCVOutput",
     "ohlcv_collector.OHLCVOutput", "USShortOutput", "KRShortOutput"}

\* The recognized indicator set of the collector a macro call goes to.
RecognizedKeys(op) ==
    IF op \in {"USMacro.latest", "USMacro.between"}
    THEN {"cpi", "core_cpi", "core_pce", "gdp", "industrial_production",
          "unemployment_rate", "nonfarm_payrolls", "federal_funds_rate",
          "10_year_bonds", "2_year_bonds", "vix", "nfci"}
    ELSE {"cpi", "core_cpi", "core_pce", "gdp", "industrial_production",
          "unemployment_rate", "nonfarm_payrolls", "federal_funds_rate",
          "10_year_bonds", "2_year_bonds"}

\* The lower-case spelling of each key a caller passes.
LowerCaseOf ==
    [k \in MacroKeys |->
        CASE k \in {"gdp", "GDP", "Gdp"} -> "gdp"
          [] k \in {"vix", "VIX"} -> "vix"
          [] k \in {"foo", "FOO"} -> "foo"
          [] k = "cpi" -> "cpi"]

IsUnknownKey(r) ==
    /\ r.kind = "raise"
    /\ r.exc.type = "ValueError"
    /\ Len(r.exc.args) = 2
    /\ r.exc.args[2] = " is not valid type."

\* The outcome of the macro call c, had the caller spelled the key as `key`.
MacroOutcome(c, key) ==
    CASE c.op = "USMacro.latest" ->
             USMacro_latest(usMacro, key, c.return_dict, c.reply)
      [] c.op = "USMacro.between" ->
             USMacro_between(usMacro, key, c.range.start, c.range.end,
                             c.return_dict, c.reply)
      [] c.op = "KRMacro.latest" ->
             KRMacro_latest(krMacro, key, c.return_dict, c.reply)
      [] c.op = "KRMacro.between" ->
             KRMacro_between(krMacro, key, c.range.start, c.range.end,
                             c.return_dict, c.reply)

\* The external source of a ranged query answered with an empty result.
EmptyUpstream(c) ==
    CASE c.op = "OHLCV.between" ->
             c.reply.kind = "return" /\ len(c.reply.value) = 0
      [] c.op = "USMacro.between" ->
             /\ LowerCaseOf[c.key] \in RecognizedKeys(c.op)
             /\ c.reply.kind = "return" /\ Len(c.reply.value) = 0
      [] c.op = "KRMacro.between" ->
             /\ LowerCaseOf[c.key] \in RecognizedKeys(c.op)
             /\ c.reply.kind = "return" /\ len(c.reply.value) = 0
      [] c.op = "KRShort.between" ->
             /\ c.reply.bal.kind = "return" /\ len(c.reply.bal.value) = 0
             /\ c.reply.vol.kind = "return"
      [] OTHER -> FALSE

IsEmptyMarker(d) == d.kind = "dict" /\ DOMAIN d.v = {"error"} /\ d.v["error"] = "empty"

IsEmptySequence(d) == d.kind = "list" /\ Len(d.v) = 0

----------------------------------------------------------------------------
(* C7: a ranged `between` query (OHLCV, US macro, KR macro, KR short)      *)
(* whose source returns an empty result does not raise: it returns an      *)
(* output record, or its mapping form, whose `data` is {"error": "empty"}  *)
(* or an empty sequence, whatever return_dict is.                          *)
C7_EmptyRangeReturnsMarker ==
    (Returned /\ call.op \in BetweenOps /\ EmptyUpstream(call)) =>
        /\ ret.kind = "return"
        /\ "data" \in DOMAIN FieldsOf(ret.value)
        /\ \/ IsEmptyMarker(FieldsOf(ret.value)["data"])
           \/ IsEmptySequence(FieldsOf(ret.value)["data"])

(* C8: `latest` and `between` of the US and KR macro collectors raise      *)
(* UnknownKey exactly when the lower-cased key is not in the collector's   *)
(* recognized set; the error comes before any call to the external source, *)
(* and a key spelled in another letter case has the outcome of its         *)
(* lower-case spelling.                                                    *)
C8_UnknownKeyIffNotRecognized ==
    (Returned /\ call.op \in MacroOps) =>
        /\ IsUnknownKey(ret) <=> LowerCaseOf[call.key] \notin RecognizedKeys(call.op)
        /\ IsUnknownKey(ret) => trace = <<>>
        /\ ret = MacroOutcome(call, LowerCaseOf[call.key]).ret

C8_Witness ==
    /\ Returned /\ call.op = "KRMacro.latest" /\ call.key = "VIX"
    /\ IsUnknownKey(ret) /\ ret.exc.args[1] = "vix"
    /\ trace = <<>>

(* C9: for every output record variant, the mapping to_dict gives for a    *)
(* constructed record builds, through the variant's constructor, a record  *)
(* with the same ticker, type, start, end, interval and data.              *)
C9_RecordRoundTrips ==
    (Returned /\ ret.kind = "return" /\ ret.value.kind = "object"
        /\ ret.value.cls \in OutputClasses) =>
        LET back == BaseModel_init(ret.value.cls, to_dict(ret.value).v)
        IN  /\ back.kind = "return"
            /\ back.value.fields = ret.value.fields

(* C10: whatever a collector call returns, record or mapping form, has a   *)
(* `data` field and that field is not null.                                *)
C10_DataPresentAndNotNull ==
    (Returned /\ call.op \in CollectorOps /\ ret.kind = "return") =>
        /\ "data" \in DOMAIN FieldsOf(ret.value)
        /\ FieldsOf(ret.value)["data"].kind # "None"

----------------------------------------------------------------------------
(* Vocabulary of the construction properties.                              *)

ConstructorOps == {"USMacroIndicatorCollector", "KRMacroIndicatorCollector", "ECOSClient"}

\* The environment variable a constructor takes its API key from.
CredentialOf(op) ==
    IF op = "USMacroIndicatorCollector" THEN "FRED_API_KEY" ELSE "ECOS_API_KEY"

IsMissingCredential(r, name) ==
    /\ r.kind = "raise"
    /\ r.exc.type = "EnvironmentError"
    /\ r.exc.args = <<name, " is not set">>

\* The caller handed the constructor a key of its own.
KeyPassed(c) == c.op = "ECOSClient" /\ c.api_key \notin {PyNone, Str("")}

\* Every instance in existence holds the key it was constructed with.
HoldsCredential ==
    /\ usMacro # PyNone => usMacro.attrs.fred.api_key # PyNone
    /\ krMacro # PyNone => krMacro.attrs.ecos.attrs.api_key \notin {PyNone, Str("")}
    /\ ecos # PyNone => ecos.attrs.api_key \notin {PyNone, Str("")}

(* C11: constructing a US or KR macro collector, or an ECOS client that is *)
(* handed no key of its own, while the API key is not set in the           *)
(* environment raises MissingCredential (EnvironmentError) at construction *)
(* without any request; no instance comes into existence without a key.    *)
C11_MissingCredentialAtConstruction ==
    /\ (Returned /\ call.op \in ConstructorOps
            /\ env[CredentialOf(call.op)] = PyNone /\ ~KeyPassed(call)) =>
           /\ IsMissingCredential(ret, CredentialOf(call.op))
           /\ trace = <<>>
    /\ HoldsCredential

C11_Witness ==
    /\ Returned /\ call.op = "KRMacroIndicatorCollector"
    /\ env["ECOS_API_KEY"] = PyNone /\ env["FRED_API_KEY"] # PyNone
    /\ usMacro # PyNone /\ krMacro = PyNone
    /\ IsMissingCredential(ret, "ECOS_API_KEY")

\* C11 as stated: construction fails whenever the key is absent from the
\* environment, a key passed to the ECOS client notwithstanding.
C11_FailsWheneverEnvKeyAbsent ==
    (Returned /\ call.op \in ConstructorOps /\ env[CredentialOf(call.op)] = PyNone) =>
        IsMissingCredential(ret, CredentialOf(call.op))

----------------------------------------------------------------------------
(* Vocabulary of the error-propagation properties.                         *)

\* The exception of the external call that failed during the call c, if one
\* did: the calls are made in order and stop at the first failure.
Failure(c) ==
    CASE c.op \in MacroOps \cup {"OHLCV.latest", "OHLCV.between", "USShort.latest"} ->
             IF trace # <<>> /\ c.reply.kind = "raise" THEN c.reply ELSE NoRet
      [] c.op = "KRShort.latest" ->
             IF c.reply.today.kind = "raise" THEN c.reply.today
             ELSE IF c.reply.bal.kind = "raise" THEN c.reply.bal
             ELSE IF len(c.reply.bal.value) > 0 /\ c.reply.vol.kind = "raise"
             THEN c.reply.vol
             ELSE NoRet
      [] c.op = "KRShort.between" ->
             IF c.reply.bal.kind = "raise" THEN c.reply.bal
             ELSE IF c.reply.vol.kind = "raise" THEN c.reply.vol
             ELSE NoRet

\* The HTTP request of the client failed in transport, or came back with an
\* error status.
TransportFailure(http) == http.kind = "raise" \/ http.status # 200

(* C12: when an external call made by a collector call fails, the          *)
(* collector call fails with that very exception instead of returning a    *)
(* value; a failed HTTP request makes the client's get_series fail.        *)
C12_NoErrorSwallowed ==
    /\ (Returned /\ call.op \in CollectorOps /\ Failure(call).kind = "raise") =>
           ret = Failure(call)
    /\ (Returned /\ call.op = "ECOSClient.get_series" /\ TransportFailure(call.http)) =>
           ret.kind = "raise"

\* The response arrived, but its body is no JSON.
Undecodable(http) ==
    http.kind = "response" /\ http.status = 200 /\ http.body.kind # "json"

\* The response is JSON and reports no error, but lacks the StatisticSearch
\* object, its rows, or a field of the rows.
MissingFields(http) ==
    /\ http.kind = "response" /\ http.status = 200 /\ http.body.kind = "json"
    /\ http.body.RESULT = PyNone
    /\ \/ http.body.StatisticSearch = PyNone
       \/ http.body.StatisticSearch.row = PyNone
       \/ http.body.StatisticSearch.row.keys # {"TIME", "DATA_VALUE"}

IsConnectionFailure(r) == r.kind = "raise" /\ r.exc.type = "ConnectionError"

\* A ValueError about the response's content, or the decoder's own error
\* (a ValueError too).
IsParseFailure(r) ==
    /\ r.kind = "raise"
    /\ \/ r.exc.type = "json.JSONDecodeError"
       \/ r.exc.type = "ValueError" /\ r.exc.args[1] = "response data parsing failed: "

(* C13: get_series of the ECOS client raises ConnectionFailure for every   *)
(* transport failure of the HTTP request and ParseFailure for every        *)
(* malformed response (a body that is no JSON, a response lacking the      *)
(* expected fields), and never one for the other.                          *)
C13_TransportAndParseFailuresKeptApart ==
    (Returned /\ call.op = "ECOSClient.get_series") =>
        /\ TransportFailure(call.http) => IsConnectionFailure(ret)
        /\ (Undecodable(call.http) \/ MissingFields(call.http)) => IsParseFailure(ret)
        /\ IsConnectionFailure(ret) => TransportFailure(call.http)
        /\ IsParseFailure(ret) => ~TransportFailure(call.http)

(* C14: `latest` and `between` of the KR macro collector, called with a    *)
(* recognized key, call get_series of the ECOS client the constructor      *)
(* made, and return an output record when that call returns rows.          *)
C14_KRMacroUsesEcosClient ==
    (Returned /\ call.op \in {"KRMacro.latest", "KRMacro.between"}
        /\ LowerCaseOf[call.key] \in RecognizedKeys(call.op)) =>
        /\ trace # <<>>
        /\ trace[1][1] = "get_series"
        /\ (call.reply.kind = "return" /\ len(call.reply.value) > 0) =>
               ReturnsRecord(ret, call)

----------------------------------------------------------------------------
(* Vocabulary of the properties of a compute call's steps and frames.      *)

\* A step of the trace that is a call of the indicator library.
IsCompute(step) == step[1] \notin {"normalize", "validate", "wrap"}

Positions(t, kind) == {i \in DOMAIN t : t[i][1] = kind}

ComputePositions(t) == {i \in DOMAIN t : IsCompute(t[i])}

\* The rows of the record, or mapping, a compute call returned.
RowsOf(r) == FieldsOf(r.value)["data"].v

(* C15: a compute call normalizes the columns, then validates the row      *)
(* count, then calls the indicator library, then wraps the record, in that *)
(* order; when the validator fails, the library is not called and nothing  *)
(* is returned.                                                            *)
C15_ValidateBeforeCompute ==
    TechCall =>
        /\ Positions(trace, "normalize") = {1}
        /\ Positions(trace, "validate") \subseteq {2}
        /\ \A i \in ComputePositions(trace) : i > 2 /\ Positions(trace, "validate") = {2}
        /\ \A i \in Positions(trace, "wrap") :
               /\ i = Len(trace)
               /\ ComputePositions(trace) = 3..(i - 1) /\ i > 3
        /\ ret.kind = "return" <=> Positions(trace, "wrap") # {}
        /\ (HasThreshold(call) /\ len(call.df) < RequiredRows(call)) =>
               /\ Len(trace) = 2
               /\ trace[2] = <<"validate", RequiredRows(call)>>
               /\ IsInsufficientData(ret)
        /\ IsInsufficientData(ret) => ComputePositions(trace) = {}

C15_Witness ==
    /\ TechCall /\ DefaultTrend(call) /\ len(call.df) = 59
    /\ trace = << <<"normalize">>, <<"validate", 60>> >>
    /\ IsInsufficientData(ret)

(* C16: after a compute call of any family, successful or failed, the      *)
(* caller's own series has the column names, the columns and the rows it   *)
(* had before the call.                                                    *)
C16_InputUnchanged ==
    TechCall =>
        /\ input.columns = call.df.columns
        /\ input.values = call.df.values
        /\ input.index = call.df.index

C16_Witness ==
    /\ TechCall /\ call.op = "volume" /\ call.obv /\ ret.kind = "return"
    /\ len(call.df) > 0 /\ call.df.columns[2] = "Open"
    /\ {"open", "OBV"} \subseteq DOMAIN RowsOf(ret)[1]
    /\ input = call.df

(* C17: normalizing the columns of an already normalized frame changes     *)
(* nothing: the column names and the data are those of the first           *)
(* normalization, whatever the input's column names.                       *)
C17_NormalizeIdempotent ==
    (Returned /\ call.op = "_normalize_columns") =>
        LET once == ret.value
            twice == _normalize_columns(once)
        IN  /\ twice.columns = once.columns
            /\ twice.values = once.values
            /\ twice.index = once.index

C17_Witness ==
    /\ Returned /\ call.op = "_normalize_columns"
    /\ call.df.columns = <<"Open", "OPEN", "open">>
    /\ ret.value.columns = <<"open", "OPEN", "open">>
    /\ len(ret.value) > 0

(* C18: in the rows a successful compute call returns every column of the  *)
(* normalized input is present with the input's value, and the indicator   *)
(* columns come on top of them: a trend call adds one column per           *)
(* configured window, 4 for sma=[20,60], ema=[12,26].                      *)
C18_ColumnsOnlyAppended ==
    (TechCall /\ ret.kind = "return") =>
        LET norm == _normalize_columns(call.df)
            kept == Range(norm.columns)
        IN  /\ Len(RowsOf(ret)) = len(norm)
            /\ \A i \in 1..len(norm) :
                   /\ kept \subseteq DOMAIN RowsOf(ret)[i]
                   /\ \A c \in kept :
                          RowsOf(ret)[i][c] = Cell(norm, LastPos(norm.columns, c), i)
                   /\ call.op = "trend" =>
                          Cardinality(DOMAIN RowsOf(ret)[i] \ kept)
                              = Len(call.sma) + Len(call.ema)
                   /\ DefaultTrend(call) =>
                          Cardinality(DOMAIN RowsOf(ret)[i] \ kept) = 4

(* C20: a trend call that fails before the indicator library is called     *)
(* fails with InsufficientData, whatever the sma and ema window lists      *)
(* (both empty included) and the number of rows.                           *)
C20_TrendFailsOnlyWithInsufficientData ==
    (TechCall /\ call.op = "trend" /\ ret.kind = "raise"
        /\ ComputePositions(trace) = {}) =>
        IsInsufficientData(ret)

----------------------------------------------------------------------------
\* The outcome of the call c, had the caller passed this return_dict flag.
Outcome(c, return_dict) ==
    CASE c.op = "trend" ->
             trend(c.ticker, c.df, c.sma, c.ema, c.range.start, c.range.end,
                   c.range.interval, return_dict, c.ta_ok)
      [] c.op = "momentum" ->
             momentum(c.ticker, c.df, c.rsi, c.macd, c.range.start, c.range.end,
                      c.range.interval, return_dict, c.ta_ok)
      [] c.op = "volatility" ->
             volatility(c.ticker, c.df, c.bb_window, c.bb_std, c.atr, c.range.start,
                        c.range.end, c.range.interval, return_dict, c.ta_ok)
      [] c.op = "volume" ->
             volume(c.ticker, c.df, c.obv, c.vma, c.range.start, c.range.end,
                    c.range.interval, return_dict, c.ta_ok)
      [] c.op \in MacroOps -> MacroOutcome([c EXCEPT !.return_dict = return_dict], c.key)
      [] c.op = "OHLCV.latest" -> OHLCV_latest(c.ticker, return_dict, c.reply)
      [] c.op = "OHLCV.between" ->
             OHLCV_between(c.ticker, c.range.start, c.range.end, c.range.interval,
                           return_dict, c.reply)
      [] c.op = "USShort.latest" -> USShort_latest(c.ticker, return_dict, c.reply)
      [] c.op = "KRShort.latest" -> KRShort_latest(c.ticker, return_dict, c.reply)
      [] c.op = "KRShort.between" ->
             KRShort_between(c.ticker, c.range.start, c.range.end, return_dict, c.reply)

(* C19: a call with return_dict=True fails exactly when the same call with *)
(* return_dict=False fails, on the same reply of the external source; when *)
(* both return, the mapping of the first is to_dict() of the record of the *)
(* second.                                                                 *)
C19_ReturnDictAgrees ==
    (Returned /\ call.op \in TechOps \cup CollectorOps) =>
        LET other == Outcome(call, ~call.return_dict).ret
            asDict == IF call.return_dict THEN ret ELSE other
            asRecord == IF call.return_dict THEN other ELSE ret
        IN  /\ asDict.kind = "raise" <=> asRecord.kind = "raise"
            /\ (asDict.kind = "return" /\ asRecord.kind = "return") =>
                   /\ asRecord.value.kind = "object"
                   /\ asDict.value = to_dict(asRecord.value)

====
